---- MODULE Spec2Model ----
(***************************************************************************)
(* simple-redis: the RESP codec (resp/encode.rs, resp/decode.rs), the      *)
(* command model (cmd/mod.rs, cmd/map.rs, cmd/hmap.rs) and the executor    *)
(* over the shared backend.                                                *)
(*                                                                         *)
(* A byte is a one-character string; a buffer, a text and a payload are    *)
(* sequences of bytes.  A decode result carries the buffer as the call     *)
(* left it, because the Rust decoders mutate the BytesMut they are given.  *)
(* A Rust panic (slice index out of range) is the result status "Panic".   *)
(***************************************************************************)
EXTENDS Integers, Sequences, FiniteSets, TLC

VARIABLES
    buf,      \* the connection buffer (BytesMut)
    wire,     \* bytes not yet appended to buf
    sent,     \* the frames whose encodings were put on the wire, in order
    pre,      \* buf as it was when the last decode call started
    res,      \* result of the last decode call
    ndec,     \* number of decode calls made so far
    called,   \* which decoder the last call was made on
    flat,     \* backend: key -> frame
    hash,     \* backend: key -> (field -> frame)
    shadow,   \* history: per key, the last Set executed
    hshadow,  \* history: per (key, field), the last HSet executed
    last,     \* the last request handled, its outcome, and the store before it
    conns,    \* per accepted connection: the handler's state and the client's
    stores,   \* the Backend instances the connections' handles refer to
    ins       \* the entries inserted into the Map under construction, in order

vars == <<buf, wire, sent, pre, res, ndec, called,
          flat, hash, shadow, hshadow, last, conns, stores, ins>>

-----------------------------------------------------------------------------
(* Bytes and texts *)

\* `let v = ...;` followed by the rest of the function body
Bind(v, Body(_)) == Body(v)

CRLF == <<"\r", "\n">>
CRLF_LEN == 2

Digits == <<"0", "1", "2", "3", "4", "5", "6", "7", "8", "9">>
DigitOf(c) == CHOOSE d \in 0..9 : Digits[d + 1] = c

\* The bytes the model uses, in ascending byte value (ASCII) order.
ByteOrder ==
    <<"\n", "\r", "#", "$", "%", "*", "+", ",", "-", ".",
      "0", "1", "2", "3", "4", "5", "6", "7", "8", "9", ":",
      "E", "G", "K", "O", "T", "X", "_",
      "a", "b", "e", "f", "g", "h", "k", "l", "o", "s", "t", "v", "x", "~", "\\xFF">>
Ord(c) == CHOOSE i \in 1..Len(ByteOrder) : ByteOrder[i] = c

\* s < t in the lexicographic byte order of Rust's String / Vec<u8> Ord.
RECURSIVE LexLess(_, _)
LexLess(s, t) ==
    IF t = <<>> THEN FALSE
    ELSE IF s = <<>> THEN TRUE
    ELSE IF Head(s) = Head(t) THEN LexLess(Tail(s), Tail(t))
    ELSE Ord(Head(s)) < Ord(Head(t))

Drop(s, n) == SubSeq(s, n + 1, Len(s))
Take(s, n) == SubSeq(s, 1, n)
StartsWith(s, p) == Len(s) >= Len(p) /\ Take(s, Len(p)) = p

\* Decimal digits of n >= 0, as {} formats an unsigned integer.
RECURSIVE DecDigits(_)
DecDigits(n) ==
    IF n < 10 THEN <<Digits[n + 1]>>
    ELSE DecDigits(n \div 10) \o <<Digits[(n % 10) + 1]>>

AllDigits(s) == \A i \in 1..Len(s) : \E d \in 1..10 : s[i] = Digits[d]

RECURSIVE DigitsValue(_)
DigitsValue(s) ==
    IF s = <<>> THEN 0
    ELSE 10 * DigitsValue(Take(s, Len(s) - 1)) + DigitOf(s[Len(s)])

\* The longest prefix of s made of digits.
RECURSIVE DigitPrefixLen(_)
DigitPrefixLen(s) ==
    IF s # <<>> /\ AllDigits(<<Head(s)>>) THEN 1 + DigitPrefixLen(Tail(s)) ELSE 0

-----------------------------------------------------------------------------
(* str::parse of the numbers on the wire *)

NoNum == [ok |-> FALSE, v |-> 0]

\* usize::from_str: an optional '+', then one or more digits; '-' is no digit.
ParseUsize(s) ==
    Bind(IF s # <<>> /\ Head(s) = "+" THEN Tail(s) ELSE s, LAMBDA t :
         IF t # <<>> /\ AllDigits(t) THEN [ok |-> TRUE, v |-> DigitsValue(t)]
         ELSE NoNum)

\* An i64 is held as its sign and the decimal digits of its magnitude, without
\* leading zeros (zero is "0", not negative): 64 bits do not fit the integers
\* of the model checker.
RECURSIVE StripZeros(_)
StripZeros(s) == IF Len(s) > 1 /\ Head(s) = "0" THEN StripZeros(Tail(s)) ELSE s

\* the magnitude of i64::MIN (neg) and of i64::MAX
I64Limit(neg) ==
    <<"9", "2", "2", "3", "3", "7", "2", "0", "3", "6",
      "8", "5", "4", "7", "7", "5", "8", "0", IF neg THEN "8" ELSE "7">>

\* i64::from_str: an optional '+' or '-', then one or more digits, of a value
\* that fits 64 bits.
ParseI64(s) ==
    Bind(IF s # <<>> /\ Head(s) \in {"+", "-"} THEN Tail(s) ELSE s, LAMBDA t :
         IF t = <<>> \/ ~AllDigits(t) THEN NoNum
         ELSE Bind(StripZeros(t), LAMBDA mag :
              Bind(Head(s) = "-" /\ mag # <<"0">>, LAMBDA neg :
                   IF Len(mag) > 19 \/ (Len(mag) = 19 /\ LexLess(I64Limit(neg), mag))
                   THEN NoNum
                   ELSE [ok |-> TRUE, v |-> [neg |-> neg, mag |-> mag]])))

\* A finite f64 is held as the decimal it prints as: (-1)^neg * m * 10^e with
\* m not divisible by 10, and zero as m = 0, e = 0, neg = FALSE.
RECURSIVE NormDec(_, _, _)
NormDec(neg, m, e) ==
    IF m = 0 THEN [neg |-> FALSE, m |-> 0, e |-> 0]
    ELSE IF m % 10 = 0 THEN NormDec(neg, m \div 10, e + 1)
    ELSE [neg |-> neg, m |-> m, e |-> e]

\* f64::from_str on a decimal literal:
\*   [+|-] (digits [. digits*] | . digits) [(e|E) [+|-] digits]
\* s1 follows the sign, ip is the integer part, fp the fraction, r2 what
\* follows the mantissa, ed the exponent's digits.
ParseF64(s) ==
    Bind(IF s # <<>> /\ Head(s) \in {"+", "-"} THEN Tail(s) ELSE s, LAMBDA s1 :
    Bind(Take(s1, DigitPrefixLen(s1)), LAMBDA ip :
    Bind(Drop(s1, Len(ip)), LAMBDA r1 :
    Bind(IF r1 # <<>> /\ Head(r1) = "."
         THEN Take(Tail(r1), DigitPrefixLen(Tail(r1))) ELSE <<>>, LAMBDA fp :
    Bind(IF r1 # <<>> /\ Head(r1) = "." THEN Drop(r1, 1 + Len(fp)) ELSE r1, LAMBDA r2 :
    Bind(IF Len(r2) >= 2 /\ r2[2] \in {"+", "-"} THEN Drop(r2, 2) ELSE Drop(r2, 1),
         LAMBDA ed :
         IF Len(ip) + Len(fp) = 0 THEN NoNum
         ELSE IF r2 = <<>>
         THEN [ok |-> TRUE,
               v |-> NormDec(Head(s) = "-", DigitsValue(ip \o fp), 0 - Len(fp))]
         ELSE IF Head(r2) \notin {"e", "E"} \/ ed = <<>> \/ ~AllDigits(ed) THEN NoNum
         ELSE [ok |-> TRUE,
               v |-> NormDec(Head(s) = "-", DigitsValue(ip \o fp),
                             (IF r2[2] = "-" THEN 0 - DigitsValue(ed)
                              ELSE DigitsValue(ed)) - Len(fp))]))))))

-----------------------------------------------------------------------------
(* RespFrame: the twelve variants (resp/mod.rs) *)

\* the empty BTreeMap
EmptyMap == <<>>

Frame(kind, txt, num, ex, flag, items, ents) ==
    [kind |-> kind, txt |-> txt, num |-> num, ex |-> ex, flag |-> flag,
     items |-> items, ents |-> ents]

SimpleString(s)   == Frame("SimpleString", s, 0, 0, FALSE, <<>>, EmptyMap)
SimpleError(s)    == Frame("Error", s, 0, 0, FALSE, <<>>, EmptyMap)
I64(neg, mag)     == Frame("Integer", mag, 0, 0, neg, <<>>, EmptyMap)
Integer(n)        == I64(n < 0, DecDigits(IF n < 0 THEN 0 - n ELSE n))
BulkString(s)     == Frame("BulkString", s, 0, 0, FALSE, <<>>, EmptyMap)
RespArray(items)  == Frame("Array", <<>>, 0, 0, FALSE, items, EmptyMap)
RespNull          == Frame("Null", <<>>, 0, 0, FALSE, <<>>, EmptyMap)
RespNullArray     == Frame("NullArray", <<>>, 0, 0, FALSE, <<>>, EmptyMap)
RespNullBulkString == Frame("NullBulkString", <<>>, 0, 0, FALSE, <<>>, EmptyMap)
Boolean(b)        == Frame("Boolean", <<>>, 0, 0, b, <<>>, EmptyMap)
Double(d)         == Frame("Double", <<>>, d.m, d.e, d.neg, <<>>, EmptyMap)
RespMap(ents)     == Frame("Map", <<>>, 0, 0, FALSE, <<>>, ents)
RespSet(items)    == Frame("Set", <<>>, 0, 0, FALSE, items, EmptyMap)

\* BTreeMap::insert
MapInsert(ents, k, v) ==
    [x \in (DOMAIN ents) \cup {k} |-> IF x = k THEN v ELSE ents[x]]

\* a faulty iteration that visits the keys in descending order
RECURSIVE SortedKeys_descending(_)
SortedKeys_descending(S) ==
    IF S = {} THEN <<>>
    ELSE Bind(CHOOSE k \in S : \A o \in S \ {k} : LexLess(o, k), LAMBDA greatest :
              <<greatest>> \o SortedKeys_descending(S \ {greatest}))

\* The keys of a BTreeMap in iteration order: ascending.
RECURSIVE SortedKeys(_)
SortedKeys(S) ==
    IF S = {} THEN <<>>
    ELSE Bind(CHOOSE k \in S : \A o \in S \ {k} : LexLess(k, o), LAMBDA least :
              <<least>> \o SortedKeys(S \ {least}))

-----------------------------------------------------------------------------
(* RespEncoder (resp/encode.rs) *)

Zeros(n) == [i \in 1..n |-> "0"]

\* {} of an i64 exponent or count: '-' and digits, or digits.
FmtInt(n) == IF n < 0 THEN <<"-">> \o DecDigits(0 - n) ELSE DecDigits(n)

\* {:+} of an i64
FmtIntPlus(n) == <<IF n.neg THEN "-" ELSE "+">> \o n.mag

\* {:e} of |d|: one digit, the rest after a point, 'e', the exponent.
FmtLowerExp(d) ==
    Bind(DecDigits(d.m), LAMBDA D :
         <<Head(D)>> \o (IF Len(D) > 1 THEN <<".">> \o Tail(D) ELSE <<>>)
         \o <<"e">> \o FmtInt(d.e + Len(D) - 1))

\* {} of |d|: plain decimal, no exponent, no trailing ".0".
FmtDisplay(d) ==
    Bind(DecDigits(d.m), LAMBDA D :
         IF d.e >= 0 THEN D \o Zeros(d.e)
         ELSE IF Len(D) > 0 - d.e
         THEN Take(D, Len(D) + d.e) \o <<".">> \o Drop(D, Len(D) + d.e)
         ELSE <<"0", ".">> \o Zeros(0 - d.e - Len(D)) \o D)

\* self.abs() > 1e+8 || self.abs() < 1e-8 on the decimal held; k is the
\* number of digits of |d| before the decimal point (<= 0 below 0.1).
UsesExponent(d) ==
    Bind(Len(DecDigits(d.m)) + d.e, LAMBDA k :
         \/ d.m # 0 /\ (k > 9 \/ (k = 9 /\ d.m # 1))
         \/ d.m = 0
         \/ k <= 0 - 8)

\* a faulty encoder that writes the sign of negative integers only
i64_encode_unsigned(n) == <<":">> \o (IF n.neg THEN <<"-">> ELSE <<>>) \o n.mag \o CRLF

i64_encode(n) == <<":">> \o FmtIntPlus(n) \o CRLF
SimpleString_encode(s) == <<"+">> \o s \o CRLF
SimpleError_encode(s) == <<"-">> \o s \o CRLF
BulkString_encode(s) == <<"$">> \o DecDigits(Len(s)) \o CRLF \o s \o CRLF
RespNullBulkString_encode == <<"$", "-", "1">> \o CRLF
RespNull_encode == <<"_">> \o CRLF
RespNullArray_encode == <<"*", "-", "1">> \o CRLF
bool_encode(b) == <<"#", IF b THEN "t" ELSE "f">> \o CRLF
f64_encode(d) ==
    IF UsesExponent(d)
    THEN <<",", IF d.neg THEN "-" ELSE "+">> \o FmtLowerExp(d) \o CRLF
    ELSE <<",">> \o (IF d.neg THEN <<"-">> ELSE <<"+">>) \o FmtDisplay(d) \o CRLF

RECURSIVE RespFrame_encode(_)
RECURSIVE EncodeAll(_)
EncodeAll(items) ==
    IF items = <<>> THEN <<>>
    ELSE RespFrame_encode(Head(items)) \o EncodeAll(Tail(items))

RespArray_encode(items) == <<"*">> \o DecDigits(Len(items)) \o CRLF \o EncodeAll(items)
RespSet_encode(items) == <<"~">> \o DecDigits(Len(items)) \o CRLF \o EncodeAll(items)

RECURSIVE EncodeEntries(_, _)
EncodeEntries(ents, keys) ==
    IF keys = <<>> THEN <<>>
    ELSE SimpleString_encode(Head(keys)) \o RespFrame_encode(ents[Head(keys)])
         \o EncodeEntries(ents, Tail(keys))

RespMap_encode(ents) ==
    <<"%">> \o DecDigits(Cardinality(DOMAIN ents)) \o CRLF
    \o EncodeEntries(ents, SortedKeys(DOMAIN ents))

RespFrame_encode(f) ==
    CASE f.kind = "SimpleString"   -> SimpleString_encode(f.txt)
      [] f.kind = "Error"          -> SimpleError_encode(f.txt)
      [] f.kind = "Integer"        -> i64_encode([neg |-> f.flag, mag |-> f.txt])
      [] f.kind = "BulkString"     -> BulkString_encode(f.txt)
      [] f.kind = "Array"          -> RespArray_encode(f.items)
      [] f.kind = "Null"           -> RespNull_encode
      [] f.kind = "NullArray"      -> RespNullArray_encode
      [] f.kind = "NullBulkString" -> RespNullBulkString_encode
      [] f.kind = "Boolean"        -> bool_encode(f.flag)
      [] f.kind = "Double"         -> f64_encode([neg |-> f.flag, m |-> f.num, e |-> f.ex])
      [] f.kind = "Map"            -> RespMap_encode(f.ents)
      [] f.kind = "Set"            -> RespSet_encode(f.items)

-----------------------------------------------------------------------------
(* RespDecoder (resp/decode.rs): results *)

\* A decode call: its status, the frame on Ok, the error on Err, and the
\* buffer as the call left it.
DecOk(f, b)   == [st |-> "Ok", frame |-> f, err |-> "", buf |-> b]
DecErr(e, b)  == [st |-> "Err", frame |-> RespNull, err |-> e, buf |-> b]
DecPanic(b)   == [st |-> "Panic", frame |-> RespNull, err |-> "", buf |-> b]
NoResult      == [st |-> "None", frame |-> RespNull, err |-> "", buf |-> <<>>]

\* A measurement (expect_length, calc_total_length, extract_simple_frame_data,
\* parse_length): n is the length or the line end, len the parsed number.
LenOk(n)  == [st |-> "Ok", n |-> n, len |-> 0, err |-> ""]
LenErr(e) == [st |-> "Err", n |-> 0, len |-> 0, err |-> e]
LenPanic  == [st |-> "Panic", n |-> 0, len |-> 0, err |-> ""]

\* The error of a failed measurement, as decode's `?` returns it.
FromLen(r, b) == IF r.st = "Panic" THEN DecPanic(b) ELSE DecErr(r.err, b)

\* String::from_utf8_lossy: an invalid byte becomes U+FFFD.
Utf8Lossy(s) == [i \in 1..Len(s) |-> IF s[i] = "\\xFF" THEN "\\uFFFD" ELSE s[i]]

-----------------------------------------------------------------------------
(* helpers of resp/decode.rs *)

\* the scan of find_crlf from 0-based index i, with `count` matches so far
RECURSIVE FindCrlfFrom(_, _, _, _)
FindCrlfFrom(b, i, count, nth) ==
    IF i >= Len(b) - 1 THEN LenErr("None")
    ELSE IF <<b[i + 1], b[i + 2]>> = CRLF
         THEN (IF count + 1 = nth THEN LenOk(i)
               ELSE FindCrlfFrom(b, i + 1, count + 1, nth))
         ELSE FindCrlfFrom(b, i + 1, count, nth)

\* find_crlf: the 0-based index of the nth CRLF; buf.len() - 1 underflows on
\* an empty buffer.
find_crlf(b, nth) ==
    IF Len(b) = 0 THEN LenPanic ELSE FindCrlfFrom(b, 0, 0, nth)

extract_simple_frame_data(b, prefix) ==
    IF Len(b) < 3 THEN LenErr("NotComplete")
    ELSE IF ~StartsWith(b, prefix) THEN LenErr("InvalidFrameType")
    ELSE Bind(find_crlf(b, 1), LAMBDA end :
              IF end.st = "Err" THEN LenErr("NotComplete") ELSE end)

\* parse_length: (end, len), held as n |-> end, len |-> len
parse_length(b, prefix) ==
    Bind(extract_simple_frame_data(b, prefix), LAMBDA end :
         IF end.st # "Ok" THEN end
         ELSE Bind(ParseUsize(Utf8Lossy(SubSeq(b, Len(prefix) + 1, end.n))), LAMBDA p :
                   IF p.ok THEN [LenOk(end.n) EXCEPT !.len = p.v]
                   ELSE LenErr("ParseIntError")))

\* extend_fixed_data: consumes `expect` from the front of the buffer.
extend_fixed_data(b, expect) ==
    IF Len(b) < Len(expect) THEN DecErr("NotComplete", b)
    ELSE IF ~StartsWith(b, expect) THEN DecErr("InvalidFrameType", b)
    ELSE DecOk(RespNull, Drop(b, Len(expect)))

-----------------------------------------------------------------------------
(* expect_length of each kind, and calc_total_length *)

SimpleString_expect_length(b) ==
    Bind(extract_simple_frame_data(b, <<"+">>), LAMBDA end :
         IF end.st = "Ok" THEN LenOk(end.n + CRLF_LEN) ELSE end)

SimpleError_expect_length(b) ==
    Bind(extract_simple_frame_data(b, <<"-">>), LAMBDA end :
         IF end.st = "Ok" THEN LenOk(end.n + CRLF_LEN) ELSE end)

i64_expect_length(b) ==
    Bind(extract_simple_frame_data(b, <<":">>), LAMBDA end :
         IF end.st = "Ok" THEN LenOk(end.n + CRLF_LEN) ELSE end)

f64_expect_length(b) ==
    Bind(extract_simple_frame_data(b, <<",">>), LAMBDA end :
         IF end.st = "Ok" THEN LenOk(end.n + CRLF_LEN) ELSE end)

RespNull_expect_length(b)           == LenOk(3)
RespNullArray_expect_length(b)      == LenOk(4)
RespNullBulkString_expect_length(b) == LenOk(5)
bool_expect_length(b)               == LenOk(4)

\* end + CRLF_LEN + len + CRLF_LEN, whatever the buffer holds after the header
BulkString_expect_length(b) ==
    Bind(parse_length(b, <<"$">>), LAMBDA r :
         IF r.st = "Ok" THEN LenOk(r.n + CRLF_LEN + r.len + CRLF_LEN) ELSE r)

RECURSIVE RespFrame_expect_length(_)
RECURSIVE MeasureElems(_, _, _)
RECURSIVE MeasureEntries(_, _, _)

\* the "*" | "~" loop of calc_total_length: `left` iterations to go
MeasureElems(data, left, total) ==
    IF left = 0 THEN LenOk(total)
    ELSE Bind(RespFrame_expect_length(data), LAMBDA r :
              IF r.st # "Ok" THEN r
              ELSE IF r.n > Len(data) THEN LenPanic         \* data = &data[len..]
              ELSE MeasureElems(Drop(data, r.n), left - 1, total + r.n))

\* the "%" loop of calc_total_length
MeasureEntries(data, left, total) ==
    IF left = 0 THEN LenOk(total)
    ELSE Bind(SimpleString_expect_length(data), LAMBDA k :
              IF k.st # "Ok" THEN k
              ELSE IF k.n > Len(data) THEN LenPanic         \* data = &data[len..]
              ELSE Bind(RespFrame_expect_length(Drop(data, k.n)), LAMBDA v :
                        IF v.st # "Ok" THEN v
                        ELSE IF v.n > Len(data) - k.n THEN LenPanic
                        ELSE MeasureEntries(Drop(data, k.n + v.n), left - 1,
                                            total + k.n + v.n)))

calc_total_length(b, end, len, prefix) ==
    IF end + CRLF_LEN > Len(b) THEN LenPanic                \* &buf[total..]
    ELSE IF prefix \in {<<"*">>, <<"~">>}
    THEN MeasureElems(Drop(b, end + CRLF_LEN), len, end + CRLF_LEN)
    ELSE IF prefix = <<"%">>
    THEN MeasureEntries(Drop(b, end + CRLF_LEN), len, end + CRLF_LEN)
    ELSE LenOk(len + CRLF_LEN)

RespArray_expect_length(b) ==
    Bind(parse_length(b, <<"*">>), LAMBDA r :
         IF r.st # "Ok" THEN r ELSE calc_total_length(b, r.n, r.len, <<"*">>))

RespMap_expect_length(b) ==
    Bind(parse_length(b, <<"%">>), LAMBDA r :
         IF r.st # "Ok" THEN r ELSE calc_total_length(b, r.n, r.len, <<"%">>))

RespSet_expect_length(b) ==
    Bind(parse_length(b, <<"~">>), LAMBDA r :
         IF r.st # "Ok" THEN r ELSE calc_total_length(b, r.n, r.len, <<"~">>))

RespFrame_expect_length(b) ==
    IF b = <<>> THEN LenErr("NotComplete")
    ELSE CASE Head(b) = "+" -> SimpleString_expect_length(b)
           [] Head(b) = "-" -> SimpleError_expect_length(b)
           [] Head(b) = ":" -> i64_expect_length(b)
           [] Head(b) = "$" -> BulkString_expect_length(b)
           [] Head(b) = "*" -> RespArray_expect_length(b)
           [] Head(b) = "%" -> RespMap_expect_length(b)
           [] Head(b) = "~" -> RespSet_expect_length(b)
           [] Head(b) = "_" -> RespNull_expect_length(b)
           [] Head(b) = "#" -> bool_expect_length(b)
           [] Head(b) = "," -> f64_expect_length(b)
           [] OTHER -> LenErr("NotComplete")

-----------------------------------------------------------------------------
(* decode of each kind *)

SimpleString_decode(b) ==
    Bind(extract_simple_frame_data(b, <<"+">>), LAMBDA end :
         IF end.st # "Ok" THEN FromLen(end, b)
         ELSE DecOk(SimpleString(Utf8Lossy(SubSeq(b, 2, end.n))),
                    Drop(b, end.n + CRLF_LEN)))

SimpleError_decode(b) ==
    Bind(extract_simple_frame_data(b, <<"-">>), LAMBDA end :
         IF end.st # "Ok" THEN FromLen(end, b)
         ELSE DecOk(SimpleError(Utf8Lossy(SubSeq(b, 2, end.n))),
                    Drop(b, end.n + CRLF_LEN)))

\* split_to runs before parse: a parse error leaves the frame's bytes removed.
i64_decode(b) ==
    Bind(extract_simple_frame_data(b, <<":">>), LAMBDA end :
         IF end.st # "Ok" THEN FromLen(end, b)
         ELSE Bind(ParseI64(Utf8Lossy(SubSeq(b, 2, end.n))), LAMBDA p :
                   IF p.ok THEN DecOk(I64(p.v.neg, p.v.mag), Drop(b, end.n + CRLF_LEN))
                   ELSE DecErr("ParseIntError", Drop(b, end.n + CRLF_LEN))))

f64_decode(b) ==
    Bind(extract_simple_frame_data(b, <<",">>), LAMBDA end :
         IF end.st # "Ok" THEN FromLen(end, b)
         ELSE Bind(ParseF64(Utf8Lossy(SubSeq(b, 2, end.n))), LAMBDA p :
                   IF p.ok THEN DecOk(Double(p.v), Drop(b, end.n + CRLF_LEN))
                   ELSE DecErr("ParseDoubleError", Drop(b, end.n + CRLF_LEN))))

RespNull_decode(b) ==
    Bind(extend_fixed_data(b, <<"_">> \o CRLF), LAMBDA r :
         IF r.st = "Ok" THEN DecOk(RespNull, r.buf) ELSE r)

RespNullArray_decode(b) ==
    Bind(extend_fixed_data(b, <<"*", "-", "1">> \o CRLF), LAMBDA r :
         IF r.st = "Ok" THEN DecOk(RespNullArray, r.buf) ELSE r)

RespNullBulkString_decode(b) ==
    Bind(extend_fixed_data(b, <<"$", "-", "1">> \o CRLF), LAMBDA r :
         IF r.st = "Ok" THEN DecOk(RespNullBulkString, r.buf) ELSE r)

\* "#t\r\n", and on an error other than NotComplete "#f\r\n"
bool_decode(b) ==
    Bind(extend_fixed_data(b, <<"#", "t">> \o CRLF), LAMBDA t :
         IF t.st = "Ok" THEN DecOk(Boolean(TRUE), t.buf)
         ELSE IF t.err = "NotComplete" THEN t
         ELSE Bind(extend_fixed_data(b, <<"#", "f">> \o CRLF), LAMBDA f :
                   IF f.st = "Ok" THEN DecOk(Boolean(FALSE), f.buf) ELSE f))

\* the trailing CRLF is counted, not compared
BulkString_decode(b) ==
    Bind(parse_length(b, <<"$">>), LAMBDA r :
         IF r.st # "Ok" THEN FromLen(r, b)
         ELSE IF Len(b) - (r.n + CRLF_LEN) < r.len + CRLF_LEN
         THEN DecErr("NotComplete", b)
         ELSE DecOk(BulkString(SubSeq(b, r.n + CRLF_LEN + 1, r.n + CRLF_LEN + r.len)),
                    Drop(b, r.n + CRLF_LEN + r.len + CRLF_LEN)))

RECURSIVE RespFrame_decode(_)
RECURSIVE DecodeElems(_, _, _)
RECURSIVE DecodeEntries(_, _, _)

\* the `for _ in 0..len` loop of RespArray::decode and RespSet::decode; the
\* result's frame field holds the elements pushed.
DecodeElems(b, left, acc) ==
    IF left = 0 THEN DecOk(acc, b)
    ELSE Bind(RespFrame_decode(b), LAMBDA r :
              IF r.st # "Ok" THEN r
              ELSE DecodeElems(r.buf, left - 1, Append(acc, r.frame)))

\* the loop of RespMap::decode; the result's frame field holds the BTreeMap.
DecodeEntries(b, left, acc) ==
    IF left = 0 THEN DecOk(acc, b)
    ELSE Bind(SimpleString_decode(b), LAMBDA k :
              IF k.st # "Ok" THEN k
              ELSE Bind(RespFrame_decode(k.buf), LAMBDA v :
                        IF v.st # "Ok" THEN v
                        ELSE DecodeEntries(v.buf, left - 1,
                                           MapInsert(acc, k.frame.txt, v.frame))))

\* The loop runs after buf.advance(end + CRLF_LEN): whatever it returns comes
\* with the header, and the elements decoded before it, removed.
RespArray_decode(b) ==
    Bind(parse_length(b, <<"*">>), LAMBDA r :
         IF r.st # "Ok" THEN FromLen(r, b)
         ELSE Bind(calc_total_length(b, r.n, r.len, <<"*">>), LAMBDA total :
                   IF total.st # "Ok" THEN FromLen(total, b)
                   ELSE IF Len(b) < total.n THEN DecErr("NotComplete", b)
                   ELSE Bind(DecodeElems(Drop(b, r.n + CRLF_LEN), r.len, <<>>),
                             LAMBDA array :
                             IF array.st = "Ok"
                             THEN DecOk(RespArray(array.frame), array.buf)
                             ELSE array)))

RespMap_decode(b) ==
    Bind(parse_length(b, <<"%">>), LAMBDA r :
         IF r.st # "Ok" THEN FromLen(r, b)
         ELSE Bind(calc_total_length(b, r.n, r.len, <<"%">>), LAMBDA total :
                   IF total.st # "Ok" THEN FromLen(total, b)
                   ELSE IF Len(b) < total.n THEN DecErr("NotComplete", b)
                   ELSE Bind(DecodeEntries(Drop(b, r.n + CRLF_LEN), r.len, EmptyMap),
                             LAMBDA map :
                             IF map.st = "Ok" THEN DecOk(RespMap(map.frame), map.buf)
                             ELSE map)))

RespSet_decode(b) ==
    Bind(parse_length(b, <<"~">>), LAMBDA r :
         IF r.st # "Ok" THEN FromLen(r, b)
         ELSE Bind(calc_total_length(b, r.n, r.len, <<"~">>), LAMBDA total :
                   IF total.st # "Ok" THEN FromLen(total, b)
                   ELSE IF Len(b) < total.n THEN DecErr("NotComplete", b)
                   ELSE Bind(DecodeElems(Drop(b, r.n + CRLF_LEN), r.len, <<>>),
                             LAMBDA set :
                             IF set.st = "Ok" THEN DecOk(RespSet(set.frame), set.buf)
                             ELSE set)))

\* RespFrame::decode: dispatch on the leading byte.  On "$" any failure of
\* RespNullBulkString::decode tries BulkString; on "*" NotComplete of
\* RespNullArray::decode is returned as it is.
RespFrame_decode(b) ==
    IF b = <<>> THEN DecErr("NotComplete", b)
    ELSE CASE Head(b) = "+" -> SimpleString_decode(b)
           [] Head(b) = "-" -> SimpleError_decode(b)
           [] Head(b) = ":" -> i64_decode(b)
           [] Head(b) = "$" ->
                Bind(RespNullBulkString_decode(b), LAMBDA s :
                     IF s.st = "Ok" THEN s ELSE BulkString_decode(b))
           [] Head(b) = "*" ->
                Bind(RespNullArray_decode(b), LAMBDA s :
                     IF s.st = "Ok" \/ s.err = "NotComplete" THEN s
                     ELSE RespArray_decode(b))
           [] Head(b) = "%" -> RespMap_decode(b)
           [] Head(b) = "~" -> RespSet_decode(b)
           [] Head(b) = "_" -> RespNull_decode(b)
           [] Head(b) = "#" -> bool_decode(b)
           [] Head(b) = "," -> f64_decode(b)
           [] OTHER -> DecErr("InvalidFrameType", b)

-----------------------------------------------------------------------------
(* The frames and buffers the codec is driven with *)

MaxElems == 2      \* most elements of a generated Array / Set, entries of a Map

Leaves ==
    { SimpleString(<<>>), SimpleString(<<"O", "K">>), SimpleError(<<"e">>),
      Integer(0), Integer(0 - 12),
      BulkString(<<>>), BulkString(<<"a">>), BulkString(CRLF),
      RespNull, RespNullArray, RespNullBulkString,
      Boolean(TRUE), Boolean(FALSE),
      Double([neg |-> FALSE, m |-> 15, e |-> 0 - 1]),
      Double([neg |-> TRUE, m |-> 25, e |-> 8]) }

SeqsUpTo(S, n) == UNION { [1..k -> S] : k \in 0..n }

\* every BTreeMap over keys K and values S with at most n entries
MapsUpTo(K, S, n) ==
    UNION { [D -> S] : D \in { X \in SUBSET K : Cardinality(X) <= n } }

CompositesOver(S) ==
    { RespArray(x) : x \in SeqsUpTo(S, MaxElems) }
    \cup { RespSet(x) : x \in SeqsUpTo(S, MaxElems) }
    \cup { RespMap(x) : x \in MapsUpTo({ <<"a">>, <<"b">>, <<"a", "b">> }, S, MaxElems) }

\* composites nested inside composites
Inner ==
    { RespArray(<<>>), RespArray(<<RespNull>>), RespArray(<<BulkString(<<"a">>)>>),
      RespSet(<<>>), RespSet(<<Boolean(TRUE), Boolean(TRUE)>>),
      RespMap(EmptyMap), RespMap(MapInsert(EmptyMap, <<"a">>, Integer(0))),
      SimpleString(<<"O", "K">>) }

Frames == Leaves \cup CompositesOver(Leaves) \cup CompositesOver(Inner)

\* the frames sent back to back
PipeFrames ==
    Leaves \cup Inner
    \cup { RespArray(<<BulkString(<<"a">>), BulkString(<<>>)>>),
           RespArray(<<RespArray(<<>>)>>) }

-----------------------------------------------------------------------------
(* Backend: the shared store (its source is not part of src/; modelled from *)
(* the store contract of the specification, section 4.5)                    *)

None      == [some |-> FALSE, v |-> RespNull]
Some(v)   == [some |-> TRUE, v |-> v]

Backend_get(fl, key) == IF key \in DOMAIN fl THEN Some(fl[key]) ELSE None
Backend_set(fl, key, value) == MapInsert(fl, key, value)
Backend_hget(hs, key, field) ==
    IF key \in DOMAIN hs /\ field \in DOMAIN hs[key] THEN Some(hs[key][field])
    ELSE None
Backend_hset(hs, key, field, value) ==
    MapInsert(hs, key,
              MapInsert(IF key \in DOMAIN hs THEN hs[key] ELSE EmptyMap, field, value))
Backend_hgetall(hs, key) == IF key \in DOMAIN hs THEN Some(hs[key]) ELSE None

-----------------------------------------------------------------------------
(* Command and its construction (cmd/mod.rs, cmd/map.rs, cmd/hmap.rs) *)

RESP_OK == SimpleString(<<"O", "K">>)

Cmd(kind, key, field, value) ==
    [kind |-> kind, key |-> key, field |-> field, value |-> value]
NoCmd == Cmd("None", <<>>, <<>>, RespNull)

CmdOk(c)  == [st |-> "Ok", err |-> "", cmd |-> c]
CmdErr(e) == [st |-> "Err", err |-> e, cmd |-> NoCmd]

\* the command names Command::try_from matches on
Name ==
    [get |-> <<"g", "e", "t">>, set |-> <<"s", "e", "t">>,
     hget |-> <<"h", "g", "e", "t">>, hset |-> <<"h", "s", "e", "t">>,
     hgetall |-> <<"h", "g", "e", "t", "a", "l", "l">>]

\* u8::to_ascii_lowercase on the bytes of the model
ToAsciiLowercase(s) ==
    [i \in 1..Len(s) |->
        CASE s[i] = "E" -> "e" [] s[i] = "G" -> "g" [] s[i] = "K" -> "k"
          [] s[i] = "O" -> "o" [] s[i] = "T" -> "t" [] s[i] = "X" -> "x"
          [] OTHER -> s[i]]

\* String::from_utf8 succeeds
Utf8Valid(s) == \A i \in 1..Len(s) : s[i] # "\\xFF"

\* a faulty validate_command that only rejects too few elements
validate_command_at_least(items, names, n_args) ==
    IF Len(items) < n_args + Len(names) THEN "InvalidArgument"
    ELSE IF \A i \in 1..Len(names) :
                /\ items[i].kind = "BulkString"
                /\ ToAsciiLowercase(items[i].txt) = names[i]
    THEN "Ok"
    ELSE "InvalidCommand"

\* validate_command: "Ok", or the error it returns
validate_command(items, names, n_args) ==
    IF Len(items) # n_args + Len(names) THEN "InvalidArgument"
    ELSE IF \A i \in 1..Len(names) :
                /\ items[i].kind = "BulkString"
                /\ ToAsciiLowercase(items[i].txt) = names[i]
    THEN "Ok"
    ELSE "InvalidCommand"

extract_args(items, start) == Drop(items, start)

\* args.next() is Some(RespFrame::BulkString(_)) at position i
IsBulk(args, i) == Len(args) >= i /\ args[i].kind = "BulkString"

Get_try_from(items) ==
    Bind(validate_command(items, <<Name.get>>, 1), LAMBDA valid :
    Bind(extract_args(items, 1), LAMBDA args :
         IF valid # "Ok" THEN CmdErr(valid)
         ELSE IF ~IsBulk(args, 1) THEN CmdErr("InvalidArgument")
         ELSE IF ~Utf8Valid(args[1].txt) THEN CmdErr("Utf8Error")
         ELSE CmdOk(Cmd("Get", args[1].txt, <<>>, RespNull))))

\* a faulty conversion of set that requires a BulkString value
Set_try_from_bulk_value(items) ==
    Bind(validate_command(items, <<Name.set>>, 2), LAMBDA valid :
    Bind(extract_args(items, 1), LAMBDA args :
         IF valid # "Ok" THEN CmdErr(valid)
         ELSE IF ~(IsBulk(args, 1) /\ IsBulk(args, 2)) THEN CmdErr("InvalidArgument")
         ELSE IF ~Utf8Valid(args[1].txt) THEN CmdErr("Utf8Error")
         ELSE CmdOk(Cmd("Set", args[1].txt, <<>>, args[2]))))

Set_try_from(items) ==
    Bind(validate_command(items, <<Name.set>>, 2), LAMBDA valid :
    Bind(extract_args(items, 1), LAMBDA args :
         IF valid # "Ok" THEN CmdErr(valid)
         ELSE IF ~(IsBulk(args, 1) /\ Len(args) >= 2) THEN CmdErr("InvalidArgument")
         ELSE IF ~Utf8Valid(args[1].txt) THEN CmdErr("Utf8Error")
         ELSE CmdOk(Cmd("Set", args[1].txt, <<>>, args[2]))))

HGet_try_from(items) ==
    Bind(validate_command(items, <<Name.hget>>, 2), LAMBDA valid :
    Bind(extract_args(items, 1), LAMBDA args :
         IF valid # "Ok" THEN CmdErr(valid)
         ELSE IF ~(IsBulk(args, 1) /\ IsBulk(args, 2)) THEN CmdErr("InvalidArgument")
         ELSE IF ~(Utf8Valid(args[1].txt) /\ Utf8Valid(args[2].txt))
         THEN CmdErr("Utf8Error")
         ELSE CmdOk(Cmd("HGet", args[1].txt, args[2].txt, RespNull))))

\* a faulty HSet conversion that takes the field for the key and the key for
\* the field
HSet_try_from_swapped(items) ==
    Bind(validate_command(items, <<Name.hset>>, 3), LAMBDA valid :
    Bind(extract_args(items, 1), LAMBDA args :
         IF valid # "Ok" THEN CmdErr(valid)
         ELSE IF ~(IsBulk(args, 1) /\ IsBulk(args, 2) /\ Len(args) >= 3)
         THEN CmdErr("InvalidArgument")
         ELSE IF ~(Utf8Valid(args[1].txt) /\ Utf8Valid(args[2].txt))
         THEN CmdErr("Utf8Error")
         ELSE CmdOk(Cmd("HSet", args[2].txt, args[1].txt, args[3]))))

HSet_try_from(items) ==
    Bind(validate_command(items, <<Name.hset>>, 3), LAMBDA valid :
    Bind(extract_args(items, 1), LAMBDA args :
         IF valid # "Ok" THEN CmdErr(valid)
         ELSE IF ~(IsBulk(args, 1) /\ IsBulk(args, 2) /\ Len(args) >= 3)
         THEN CmdErr("InvalidArgument")
         ELSE IF ~(Utf8Valid(args[1].txt) /\ Utf8Valid(args[2].txt))
         THEN CmdErr("Utf8Error")
         ELSE CmdOk(Cmd("HSet", args[1].txt, args[2].txt, args[3]))))

HGetAll_try_from(items) ==
    Bind(validate_command(items, <<Name.hgetall>>, 1), LAMBDA valid :
    Bind(extract_args(items, 1), LAMBDA args :
         IF valid # "Ok" THEN CmdErr(valid)
         ELSE IF ~IsBulk(args, 1) THEN CmdErr("InvalidArgument")
         ELSE IF ~Utf8Valid(args[1].txt) THEN CmdErr("Utf8Error")
         ELSE CmdOk(Cmd("HGetAll", args[1].txt, <<>>, RespNull))))

\* a faulty conversion that matches the command name in any letter case
Command_try_from_array_any_case(items) ==
    IF items # <<>> /\ items[1].kind = "BulkString"
    THEN Bind(ToAsciiLowercase(items[1].txt), LAMBDA cmd :
              CASE cmd = Name.get     -> Get_try_from(items)
                [] cmd = Name.set     -> Set_try_from(items)
                [] cmd = Name.hget    -> HGet_try_from(items)
                [] cmd = Name.hset    -> HSet_try_from(items)
                [] cmd = Name.hgetall -> HGetAll_try_from(items)
                [] OTHER -> CmdOk(Cmd("Unrecognized", <<>>, <<>>, RespNull)))
    ELSE CmdErr("InvalidCommand")

\* impl TryFrom<RespArray> for Command
Command_try_from_array(items) ==
    IF items # <<>> /\ items[1].kind = "BulkString"
    THEN CASE items[1].txt = Name.get     -> Get_try_from(items)
           [] items[1].txt = Name.set     -> Set_try_from(items)
           [] items[1].txt = Name.hget    -> HGet_try_from(items)
           [] items[1].txt = Name.hset    -> HSet_try_from(items)
           [] items[1].txt = Name.hgetall -> HGetAll_try_from(items)
           [] OTHER -> CmdOk(Cmd("Unrecognized", <<>>, <<>>, RespNull))
    ELSE CmdErr("InvalidCommand")

\* a faulty conversion that takes a Set frame for an Array
Command_try_from_any_sequence(frame) ==
    IF frame.kind \in {"Array", "Set"} THEN Command_try_from_array(frame.items)
    ELSE CmdErr("InvalidCommand")

\* impl TryFrom<RespFrame> for Command
Command_try_from(frame) ==
    IF frame.kind = "Array" THEN Command_try_from_array(frame.items)
    ELSE CmdErr("InvalidCommand")

-----------------------------------------------------------------------------
(* CommandExecutor: the response and the store after the command *)

Done(resp, fl, hs) == [resp |-> resp, flat |-> fl, hash |-> hs]

Get_execute(c, fl, hs) ==
    Bind(Backend_get(fl, c.key), LAMBDA value :
         Done(IF value.some THEN value.v ELSE RespNull, fl, hs))

\* a faulty Set that keeps the value a key already has
Set_execute_if_absent(c, fl, hs) ==
    Done(RESP_OK, IF c.key \in DOMAIN fl THEN fl ELSE Backend_set(fl, c.key, c.value), hs)

Set_execute(c, fl, hs) == Done(RESP_OK, Backend_set(fl, c.key, c.value), hs)

\* a faulty HGet that creates the field table of a key that has none
HGet_execute_creating(c, fl, hs) ==
    Bind(Backend_hget(hs, c.key, c.field), LAMBDA value :
         Done(IF value.some THEN value.v ELSE RespNull, fl,
              IF c.key \in DOMAIN hs THEN hs ELSE MapInsert(hs, c.key, EmptyMap)))

HGet_execute(c, fl, hs) ==
    Bind(Backend_hget(hs, c.key, c.field), LAMBDA value :
         Done(IF value.some THEN value.v ELSE RespNull, fl, hs))

\* a faulty HSet that replaces the key's field table by one holding only the
\* field written
HSet_execute_replacing(c, fl, hs) ==
    Done(RESP_OK, fl, MapInsert(hs, c.key, MapInsert(EmptyMap, c.field, c.value)))

\* a faulty HSet that writes a field only into a field table it creates
HSet_execute_into_new_table(c, fl, hs) ==
    Done(RESP_OK, fl,
         IF c.key \in DOMAIN hs THEN hs ELSE Backend_hset(hs, c.key, c.field, c.value))

\* a faulty HSet that also stores the value under the key in the flat
\* namespace
HSet_execute_into_flat(c, fl, hs) ==
    Done(RESP_OK, Backend_set(fl, c.key, c.value),
         Backend_hset(hs, c.key, c.field, c.value))

HSet_execute(c, fl, hs) ==
    Done(RESP_OK, fl, Backend_hset(hs, c.key, c.field, c.value))

\* a faulty HGetAll that answers a missing key with an empty Map
HGetAll_execute_symmetric(c, fl, hs) ==
    Bind(Backend_hgetall(hs, c.key), LAMBDA hmap :
         Done(RespMap(IF hmap.some THEN hmap.v ELSE EmptyMap), fl, hs))

\* Some(m): every entry of m inserted into a new RespMap; None: an empty Array
HGetAll_execute(c, fl, hs) ==
    Bind(Backend_hgetall(hs, c.key), LAMBDA hmap :
         Done(IF hmap.some THEN RespMap([k \in DOMAIN hmap.v |-> hmap.v[k]])
              ELSE RespArray(<<>>),
              fl, hs))

Unrecognized_execute(c, fl, hs) == Done(RESP_OK, fl, hs)

\* enum_dispatch of CommandExecutor over Command
Command_execute(c, fl, hs) ==
    CASE c.kind = "Get"     -> Get_execute(c, fl, hs)
      [] c.kind = "Set"     -> Set_execute(c, fl, hs)
      [] c.kind = "HGet"    -> HGet_execute(c, fl, hs)
      [] c.kind = "HSet"    -> HSet_execute(c, fl, hs)
      [] c.kind = "HGetAll" -> HGetAll_execute(c, fl, hs)
      [] c.kind = "Unrecognized" -> Unrecognized_execute(c, fl, hs)

-----------------------------------------------------------------------------
(* Handling one request: Command::try_from, then execute on the store *)

NoLast ==
    [req |-> RespNull, conv |-> "None", cmd |-> NoCmd, resp |-> RespNull,
     flat0 |-> EmptyMap, hash0 |-> EmptyMap]

Store(fl, hs, sh, hsh, l) ==
    [flat |-> fl, hash |-> hs, shadow |-> sh, hshadow |-> hsh, last |-> l]

EmptyStore == Store(EmptyMap, EmptyMap, EmptyMap, EmptyMap, NoLast)

\* The history after a write of v under k: the value written, and whether it
\* took the place of a different value.
Written(hist, k, v) ==
    MapInsert(hist, k, [v |-> v, over |-> k \in DOMAIN hist /\ hist[k].v # v])

\* a faulty handler that empties the flat namespace when it rejects a request
Apply_clearing_on_error(st, req) ==
    Bind(Command_try_from(req), LAMBDA c :
         IF c.st # "Ok"
         THEN [st EXCEPT !.flat = EmptyMap,
                         !.last = [req |-> req, conv |-> c.err, cmd |-> NoCmd,
                                   resp |-> RespNull,
                                   flat0 |-> st.flat, hash0 |-> st.hash]]
         ELSE Bind(Command_execute(c.cmd, st.flat, st.hash), LAMBDA x :
                   Store(x.flat, x.hash,
                         IF c.cmd.kind = "Set"
                         THEN Written(st.shadow, c.cmd.key, c.cmd.value)
                         ELSE st.shadow,
                         IF c.cmd.kind = "HSet"
                         THEN Written(st.hshadow, <<c.cmd.key, c.cmd.field>>,
                                      c.cmd.value)
                         ELSE st.hshadow,
                         [req |-> req, conv |-> "Ok", cmd |-> c.cmd, resp |-> x.resp,
                          flat0 |-> st.flat, hash0 |-> st.hash])))

\* The store after one request frame: a frame that is no command leaves it
\* alone, a command is executed.  shadow / hshadow record the last Set / HSet
\* executed.
Apply(st, req) ==
    Bind(Command_try_from(req), LAMBDA c :
         IF c.st # "Ok"
         THEN [st EXCEPT !.last = [req |-> req, conv |-> c.err, cmd |-> NoCmd,
                                   resp |-> RespNull,
                                   flat0 |-> st.flat, hash0 |-> st.hash]]
         ELSE Bind(Command_execute(c.cmd, st.flat, st.hash), LAMBDA x :
                   Store(x.flat, x.hash,
                         IF c.cmd.kind = "Set"
                         THEN Written(st.shadow, c.cmd.key, c.cmd.value)
                         ELSE st.shadow,
                         IF c.cmd.kind = "HSet"
                         THEN Written(st.hshadow, <<c.cmd.key, c.cmd.field>>,
                                      c.cmd.value)
                         ELSE st.hshadow,
                         [req |-> req, conv |-> "Ok", cmd |-> c.cmd, resp |-> x.resp,
                          flat0 |-> st.flat, hash0 |-> st.hash])))

RECURSIVE ApplyAll(_, _)
ApplyAll(st, reqs) ==
    IF reqs = <<>> THEN st ELSE ApplyAll(Apply(st, Head(reqs)), Tail(reqs))

-----------------------------------------------------------------------------
(* The requests the store is driven with *)

MaxArgs == 4       \* most elements after the command name in a generated request

KeyTexts   == { <<"k">>, <<"a">> }
FieldTexts == { <<"f">>, <<"a">> }

Req(name, args) == RespArray(<<BulkString(name)>> \o args)

\* well-formed commands, and one request that names no command
StoreReqs ==
    { Req(Name.get, <<BulkString(k)>>) : k \in KeyTexts }
    \cup { Req(Name.set, <<BulkString(k), v>>) :
             k \in KeyTexts, v \in { BulkString(<<"v">>), Integer(0) } }
    \cup { Req(Name.hget, <<BulkString(k), BulkString(f)>>) :
             k \in KeyTexts, f \in FieldTexts }
    \cup { Req(Name.hset, <<BulkString(k), BulkString(f), v>>) :
             k \in KeyTexts, f \in FieldTexts,
             v \in { BulkString(<<"v">>), Integer(0) } }
    \cup { Req(Name.hgetall, <<BulkString(k)>>) : k \in KeyTexts }
    \cup { Req(<<"x">>, <<BulkString(<<"k">>)>>) }

\* request frames of every shape, well-formed or not
CmdFrames ==
    { RespArray(<<h>> \o a) :
        h \in { BulkString(n) :
                  n \in { Name.get, Name.set, Name.hget, Name.hset, Name.hgetall,
                          <<"G", "E", "T">>, <<"x">>, <<"h", "g", "e", "t", "a">>,
                          <<>> } }
              \cup { Integer(0), SimpleString(Name.get) },
        a \in SeqsUpTo({ BulkString(<<"k">>), BulkString(<<"a">>), Integer(0),
                         BulkString(<<"\\xFF">>) }, MaxArgs) }
    \cup { RespArray(<<>>), BulkString(Name.get), RespNull, RespNullArray,
           RespMap(EmptyMap), RespSet(<<BulkString(Name.get), BulkString(<<"k">>)>>) }

\* stores a probe request is handled on: each the result of handling requests
SampleStores ==
    { ApplyAll(EmptyStore, rs) :
        rs \in { <<>>,
                 <<Req(Name.set, <<BulkString(<<"k">>), Integer(0)>>)>>,
                 <<Req(Name.hset, <<BulkString(<<"a">>), BulkString(<<"f">>),
                                    Integer(0)>>)>>,
                 <<Req(Name.set, <<BulkString(<<"k">>), BulkString(<<"v">>)>>),
                   Req(Name.hset, <<BulkString(<<"k">>), BulkString(<<"a">>),
                                    BulkString(<<"v">>)>>)>> } }

-----------------------------------------------------------------------------
(* The buffers the decoders are called on *)

\* every prefix of an encoding, and every encoding with one byte replaced
RawBuffers ==
    UNION { { Take(RespFrame_encode(f), n) : n \in 0..Len(RespFrame_encode(f)) }
            \cup { [RespFrame_encode(f) EXCEPT ![i] = c] :
                     i \in 1..Len(RespFrame_encode(f)), c \in { "X", "a", "-", "1" } } :
            f \in PipeFrames
                  \cup CompositesOver({ Integer(0), BulkString(<<"a">>), RespNull,
                                        Boolean(FALSE) }) }

Decoders ==
    { "RespFrame", "SimpleString", "SimpleError", "i64", "f64", "RespNull",
      "RespNullArray", "RespNullBulkString", "bool", "BulkString",
      "RespArray", "RespMap", "RespSet" }

DecodeBy(d, b) ==
    CASE d = "RespFrame"          -> RespFrame_decode(b)
      [] d = "SimpleString"       -> SimpleString_decode(b)
      [] d = "SimpleError"        -> SimpleError_decode(b)
      [] d = "i64"                -> i64_decode(b)
      [] d = "f64"                -> f64_decode(b)
      [] d = "RespNull"           -> RespNull_decode(b)
      [] d = "RespNullArray"      -> RespNullArray_decode(b)
      [] d = "RespNullBulkString" -> RespNullBulkString_decode(b)
      [] d = "bool"               -> bool_decode(b)
      [] d = "BulkString"         -> BulkString_decode(b)
      [] d = "RespArray"          -> RespArray_decode(b)
      [] d = "RespMap"            -> RespMap_decode(b)
      [] d = "RespSet"            -> RespSet_decode(b)

-----------------------------------------------------------------------------
(* State machines *)

CodecIdle ==
    /\ buf = <<>> /\ wire = <<>> /\ sent = <<>> /\ pre = <<>>
    /\ res = NoResult /\ ndec = 0 /\ called = "None"

StoreIs(st) ==
    /\ flat = st.flat /\ hash = st.hash /\ shadow = st.shadow
    /\ hshadow = st.hshadow /\ last = st.last

\* no connection accepted, no Map under construction
NoConns == conns = <<>> /\ stores = <<>> /\ ins = <<>>

\* One decode call of decoder d on the buffer b.
Decode(d, b) ==
    /\ pre' = b
    /\ res' = DecodeBy(d, b)
    /\ buf' = res'.buf
    /\ ndec' = ndec + 1
    /\ called' = d
    /\ UNCHANGED <<sent, flat, hash, shadow, hshadow, last, conns, stores, ins>>

(* Feeding one frame a byte at a time, decoding after every byte *)
InitFeed ==
    /\ \E f \in Frames : sent = <<f>> /\ wire = RespFrame_encode(f)
    /\ buf = <<>> /\ pre = <<>> /\ res = NoResult /\ ndec = 0 /\ called = "None"
    /\ StoreIs(EmptyStore)
    /\ NoConns

FeedByte ==
    /\ wire # <<>>
    /\ res.st # "Panic"
    /\ Decode("RespFrame", Append(buf, Head(wire)))
    /\ wire' = Tail(wire)

SpecFeed == InitFeed /\ [][FeedByte]_vars

(* One or two complete encodings in the buffer, decoded in sequence *)
InitPipe ==
    /\ \/ \E f \in Frames : sent = <<f>> /\ buf = RespFrame_encode(f)
       \/ \E f \in PipeFrames, g \in PipeFrames :
             sent = <<f, g>> /\ buf = RespFrame_encode(f) \o RespFrame_encode(g)
    /\ wire = <<>> /\ pre = <<>> /\ res = NoResult /\ ndec = 0 /\ called = "None"
    /\ StoreIs(EmptyStore)
    /\ NoConns

DecodeNext ==
    /\ ndec < Len(sent)
    /\ res.st # "Panic"
    /\ Decode("RespFrame", buf)
    /\ UNCHANGED wire

SpecPipe == InitPipe /\ [][DecodeNext]_vars

(* Any decoder called once on any buffer *)
InitRaw ==
    /\ buf \in RawBuffers
    /\ wire = <<>> /\ sent = <<>> /\ pre = <<>> /\ res = NoResult /\ ndec = 0
    /\ called = "None"
    /\ StoreIs(EmptyStore)
    /\ NoConns

CallDecode ==
    /\ ndec = 0
    /\ \E d \in Decoders : Decode(d, buf)
    /\ UNCHANGED wire

SpecRaw == InitRaw /\ [][CallDecode]_vars

(* Requests handled one after another on the shared store *)
Handle(req) ==
    Bind(Apply(Store(flat, hash, shadow, hshadow, last), req), LAMBDA n :
         /\ flat' = n.flat
         /\ hash' = n.hash
         /\ shadow' = n.shadow
         /\ hshadow' = n.hshadow
         /\ last' = n.last
         /\ UNCHANGED <<buf, wire, sent, pre, res, ndec, called, conns, stores, ins>>)

InitStore == CodecIdle /\ StoreIs(EmptyStore) /\ NoConns

HandleCommand == \E req \in StoreReqs : Handle(req)

Spec == InitStore /\ [][HandleCommand]_vars

(* One request frame of any shape handled on a store *)
InitCmd ==
    /\ CodecIdle /\ NoConns
    /\ \E st \in SampleStores : StoreIs([st EXCEPT !.last = NoLast])

HandleProbe == last.conv = "None" /\ \E req \in CmdFrames : Handle(req)

SpecCmd == InitCmd /\ [][HandleProbe]_vars


(* Frames constructed, encoded, and the encoding decoded *)

MaxInserts == 3    \* most entries inserted into the Map under construction

\* integers, doubles around the two thresholds of f64::encode, and Sets with
\* repeated elements
EncFrames ==
    { Integer(0), Integer(7), Integer(0 - 12),
      I64(FALSE, I64Limit(FALSE)), I64(TRUE, I64Limit(TRUE)) }
    \cup { Double(NormDec(d[1], d[2], d[3])) :
             d \in { <<FALSE, 0, 0>>, <<FALSE, 1, 8>>, <<TRUE, 1, 8>>, <<FALSE, 1, 0 - 8>>,
                     <<FALSE, 100000001, 0>>, <<FALSE, 99999999, 0>>,
                     <<FALSE, 123456, 3>>, <<TRUE, 123456, 0 - 14>>,
                     <<FALSE, 9, 0 - 9>>, <<FALSE, 123456, 0 - 3>>, <<TRUE, 25, 0 - 1>> } }
    \cup { RespSet(x) :
             x \in SeqsUpTo({ BulkString(<<"a">>), Integer(0), RespNull, RespArray(<<>>) },
                            MaxInserts) }

InitEnc ==
    /\ \E f \in EncFrames \cup { RespMap(EmptyMap) } : sent = <<f>>
    /\ buf = <<>> /\ wire = <<>> /\ pre = <<>> /\ res = NoResult /\ ndec = 0
    /\ called = "None"
    /\ StoreIs(EmptyStore)
    /\ NoConns

\* map.insert(key, value) on the Map under construction
InsertEntry ==
    /\ sent[1].kind = "Map" /\ buf = <<>> /\ ndec = 0 /\ Len(ins) < MaxInserts
    /\ \E k \in { <<"a">>, <<"b">>, <<"a", "b">> }, v \in { Integer(0), BulkString(<<"a">>) } :
          /\ sent' = <<RespMap(MapInsert(sent[1].ents, k, v))>>
          /\ ins' = Append(ins, <<k, v>>)
    /\ UNCHANGED <<buf, wire, pre, res, ndec, called,
                   flat, hash, shadow, hshadow, last, conns, stores>>

\* frame.encode(), the bytes put into the buffer
EncodeSent ==
    /\ buf = <<>> /\ ndec = 0
    /\ buf' = RespFrame_encode(sent[1])
    /\ UNCHANGED <<wire, sent, pre, res, ndec, called,
                   flat, hash, shadow, hshadow, last, conns, stores, ins>>

SpecEnc == InitEnc /\ [][InsertEntry \/ EncodeSent \/ (buf # <<>> /\ DecodeNext)]_vars

(* Connections served concurrently on one Backend (main.rs) *)

Conns == { 1, 2 }

\* a faulty main that creates a Backend for every connection it accepts
ConnBackend_per_connection(c) == c

\* the Backend a connection's handler is given: main creates one Backend
\* before the accept loop and hands every connection a clone of it
ConnBackend(c) == 0

\* what the client of a connection sends, first to last
ConnScripts ==
    { <<Req(Name.set, <<BulkString(<<"k">>), BulkString(<<"v">>)>>),
        Req(Name.get, <<BulkString(<<"k">>)>>)>>,
      <<Req(Name.set, <<BulkString(<<"k">>), Integer(0)>>),
        Req(Name.get, <<BulkString(<<"k">>)>>)>>,
      <<Req(Name.set, <<BulkString(<<"k">>), RespArray(<<>>)>>),
        Req(Name.get, <<BulkString(<<"k">>)>>)>>,
      <<Req(Name.get, <<BulkString(<<"k">>)>>)>>,
      <<Req(Name.hset, <<BulkString(<<"k">>), BulkString(<<"f">>), BulkString(<<"v">>)>>),
        Req(Name.hgetall, <<BulkString(<<"k">>)>>)>>,
      <<Req(Name.hset, <<BulkString(<<"k">>), BulkString(<<"a">>), Integer(0)>>)>>,
      <<Req(Name.hset, <<BulkString(<<"a">>), BulkString(<<"f">>), Integer(0)>>)>> }

\* where a read may end inside a request: after its first byte, after the
\* header of its first BulkString, after its first BulkString
MidCuts == { 1, 8, 13 }

\* the frame a handler that answers a command error writes
ErrorReply == SimpleError(<<"e">>)

\* a connection just accepted: wire holds the encodings still to arrive, one
\* piece per request (the head may be the rest of a request partly read)
Conn(reqs) ==
    [reqs |-> reqs, wire |-> [i \in 1..Len(reqs) |-> RespFrame_encode(reqs[i])],
     inbuf |-> <<>>, await |-> TRUE, closed |-> FALSE, log |-> <<>>, out |-> <<>>]

\* the Set requests of a connection not yet executed
SetsLeft(k) ==
    Cardinality({ i \in 1..Len(k.reqs) : k.reqs[i].items[1].txt = Name.set })
    - Cardinality({ i \in 1..Len(k.log) : k.log[i].h.cmd.kind = "Set" })

InitConn ==
    /\ CodecIdle /\ StoreIs(EmptyStore) /\ ins = <<>>
    /\ conns \in [Conns -> { Conn(reqs) : reqs \in ConnScripts }]
    /\ stores = [id \in { ConnBackend(c) : c \in Conns } |->
                    [flat |-> EmptyMap, hash |-> EmptyMap]]

\* bytes arrive, whether the handler awaits them or not: the rest of the next
\* request, or its first bytes, are appended to the handler's buffer
Receive(c) ==
    /\ ~conns[c].closed /\ conns[c].wire # <<>>
    /\ \/ conns' = [conns EXCEPT
                      ![c].inbuf = @ \o Head(conns[c].wire),
                      ![c].wire = Tail(@),
                      ![c].await = FALSE]
       \/ \E n \in MidCuts :
             /\ n < Len(conns[c].wire[1])
             /\ conns' = [conns EXCEPT
                            ![c].inbuf = @ \o Take(conns[c].wire[1], n),
                            ![c].wire[1] = Drop(@, n),
                            ![c].await = FALSE]
    /\ UNCHANGED <<buf, wire, sent, pre, res, ndec, called,
                   flat, hash, shadow, hshadow, last, stores, ins>>

\* one turn of the handler's loop: decode a frame from the buffer; on
\* NotComplete await more bytes; on a frame convert it, execute the command
\* on the connection's Backend and write the encoded response; on a decode
\* error or a panic the connection ends; on a command error the handler
\* either ends the connection or answers with an error frame
Serve(c) ==
    /\ ~conns[c].closed /\ ~conns[c].await
    /\ Bind(RespFrame_decode(conns[c].inbuf), LAMBDA r :
         IF r.st # "Ok"
         THEN /\ conns' = [conns EXCEPT
                             ![c].inbuf = r.buf,
                             ![c].await = (r.st = "Err" /\ r.err = "NotComplete"),
                             ![c].closed = ~(r.st = "Err" /\ r.err = "NotComplete")]
              /\ UNCHANGED <<stores, shadow, hshadow, last>>
         ELSE Bind(Apply(Store(stores[ConnBackend(c)].flat, stores[ConnBackend(c)].hash,
                               shadow, hshadow, last), r.frame), LAMBDA n :
              /\ \E reply \in BOOLEAN :
                    /\ n.last.conv = "Ok" => reply
                    /\ conns' = [conns EXCEPT
                                   ![c].inbuf = r.buf,
                                   ![c].closed = ~reply,
                                   ![c].log = Append(@,
                                       [h |-> n.last,
                                        quiet |-> \A d \in Conns : SetsLeft(conns[d]) = 0]),
                                   ![c].out = IF reply
                                              THEN Append(@, RespFrame_encode(
                                                     IF n.last.conv = "Ok" THEN n.last.resp
                                                     ELSE ErrorReply))
                                              ELSE @]
              /\ stores' = [stores EXCEPT ![ConnBackend(c)] =
                                             [flat |-> n.flat, hash |-> n.hash]]
              /\ shadow' = n.shadow
              /\ hshadow' = n.hshadow
              /\ last' = n.last))
    /\ UNCHANGED <<buf, wire, sent, pre, res, ndec, called, flat, hash, ins>>

\* one task per accepted connection, all running concurrently
SpecConn == InitConn /\ [][\E c \in Conns : Receive(c) \/ Serve(c)]_vars

-----------------------------------------------------------------------------
(* Properties of the codec *)

NotComplete(r) == r.st = "Err" /\ r.err = "NotComplete"

\* C1: while the bytes of one frame's encoding arrive one at a time, every
\* decode made before the last byte returns NotComplete and leaves the buffer
\* as it was, and the decode made after the last byte returns the frame and
\* leaves the buffer empty.
PartialBufferIdempotence ==
    ndec > 0 =>
        IF wire # <<>> THEN NotComplete(res) /\ buf = pre
        ELSE res.st = "Ok" /\ res.frame = sent[1] /\ buf = <<>>

\* no CR or LF in any payload or key of the frame
RECURSIVE CrlfFree(_)
CrlfFree(f) ==
    /\ \A i \in 1..Len(f.txt) : f.txt[i] \notin {"\r", "\n"}
    /\ \A i \in 1..Len(f.items) : CrlfFree(f.items[i])
    /\ \A k \in DOMAIN f.ents :
          (\A i \in 1..Len(k) : k[i] \notin {"\r", "\n"}) /\ CrlfFree(f.ents[k])

\* C2: decoding a buffer that holds exactly the encoding of a frame without
\* CR/LF in its payloads returns that frame (a Map compared by its entries).
RoundTrip ==
    (Len(sent) = 1 /\ ndec = 1 /\ CrlfFree(sent[1]))
        => res.st = "Ok" /\ res.frame = sent[1]

\* C3: a decode call, of RespFrame or of any kind, that returns NotComplete
\* leaves the buffer byte for byte as it was before the call.
NotCompleteKeepsBuffer == (ndec = 1 /\ NotComplete(res)) => buf = pre

\* C4: two encodings back to back decode to the first frame, leaving exactly
\* the second encoding, and then to the second frame, leaving nothing.
Pipelining ==
    Len(sent) = 2 =>
        /\ ndec = 1 => /\ res.st = "Ok" /\ res.frame = sent[1]
                       /\ buf = RespFrame_encode(sent[2])
        /\ ndec = 2 => res.st = "Ok" /\ res.frame = sent[2] /\ buf = <<>>

\* C5: a decode of an Array, Map or Set that does not succeed leaves the
\* buffer exactly as it was before the call, header included.
FailedCompositeKeepsBuffer ==
    (ndec = 1 /\ called \in {"RespArray", "RespMap", "RespSet"} /\ res.st # "Ok")
        => buf = pre

-----------------------------------------------------------------------------
(* Properties of the commands *)

Executed(kind) == last.conv = "Ok" /\ last.cmd.kind = kind

\* C6: Get(k) returns the value of the last Set(k, v) executed, or Null when
\* there was none; Set returns "OK" and leaves k holding its value, whatever
\* k held before.
GetSetContract ==
    /\ Executed("Get") =>
          last.resp = IF last.cmd.key \in DOMAIN shadow THEN shadow[last.cmd.key].v
                      ELSE RespNull
    /\ Executed("Set") =>
          /\ last.resp = RESP_OK
          /\ Backend_get(flat, last.cmd.key) = Some(last.cmd.value)

\* a Get answered with a value that was set over a different one
GetAfterOverwrite ==
    /\ Executed("Get")
    /\ last.cmd.key \in DOMAIN shadow
    /\ shadow[last.cmd.key].over
    /\ last.resp = shadow[last.cmd.key].v

\* C7: HGet(k, f) returns the value of the last HSet(k, f, v) executed, and
\* Null when k has no field table or f was never set under k; HSet returns
\* "OK" and leaves f of k holding its value, creating the table when absent.
HGetHSetContract ==
    /\ Executed("HGet") =>
          last.resp = IF <<last.cmd.key, last.cmd.field>> \in DOMAIN hshadow
                      THEN hshadow[<<last.cmd.key, last.cmd.field>>].v
                      ELSE RespNull
    /\ Executed("HSet") =>
          /\ last.resp = RESP_OK
          /\ Backend_hget(hash, last.cmd.key, last.cmd.field) = Some(last.cmd.value)

\* an HGet answered, from a field table of two fields, with a value that was
\* set over a different one
HGetAmongFields ==
    /\ Executed("HGet")
    /\ <<last.cmd.key, last.cmd.field>> \in DOMAIN hshadow
    /\ hshadow[<<last.cmd.key, last.cmd.field>>].over
    /\ Cardinality(DOMAIN hash[last.cmd.key]) = 2
    /\ last.resp = hshadow[<<last.cmd.key, last.cmd.field>>].v

\* the fields of key k that an HSet was executed on
FieldsSet(k) == { p[2] : p \in { q \in DOMAIN hshadow : q[1] = k } }

\* C8: HGetAll(k) returns an empty Array when no HSet(k, ., .) was executed,
\* and otherwise a Map of exactly the fields set under k, each with the value
\* last set.
HGetAllContract ==
    Executed("HGetAll") =>
        last.resp = IF FieldsSet(last.cmd.key) = {} THEN RespArray(<<>>)
                    ELSE RespMap([f \in FieldsSet(last.cmd.key) |->
                                     hshadow[<<last.cmd.key, f>>].v])

\* an HGetAll answered with a Map of two fields, one of them set twice
HGetAllOfTwoFields ==
    /\ Executed("HGetAll")
    /\ last.resp.kind = "Map"
    /\ Cardinality(DOMAIN last.resp.ents) = 2
    /\ \E f \in FieldsSet(last.cmd.key) : hshadow[<<last.cmd.key, f>>].over

\* the request is an Array led by a BulkString
LedByBulk == last.req.kind = "Array" /\ IsBulk(last.req.items, 1)

KnownNames == { Name.get, Name.set, Name.hget, Name.hset, Name.hgetall }

\* C9: an Array led by a BulkString that is none of the five lowercase names
\* converts to Unrecognized, whatever follows the name, executes to "OK" and
\* leaves both namespaces of the store as they were.
UnrecognizedLeniency ==
    (last.conv # "None" /\ LedByBulk /\ last.req.items[1].txt \notin KnownNames)
        => /\ Executed("Unrecognized")
           /\ last.resp = RESP_OK
           /\ flat = last.flat0 /\ hash = last.hash0

\* GET in capitals with a key and a non-key argument, on a store holding data
UppercaseGetOnData ==
    /\ Executed("Unrecognized")
    /\ last.req.items[1].txt = <<"G", "E", "T">>
    /\ Len(last.req.items) = 3
    /\ flat # EmptyMap /\ hash # EmptyMap
    /\ flat = last.flat0 /\ hash = last.hash0

\* the number of elements of a well-formed request, by command name
Arity(name) ==
    CASE name = Name.get -> 2 [] name = Name.set -> 3 [] name = Name.hget -> 3
      [] name = Name.hset -> 4 [] name = Name.hgetall -> 2

\* C10: an Array led by a known command name whose number of elements is not
\* the one of that command, fewer or more, yields InvalidArgument and no
\* Command.
ArityValidation ==
    (last.conv # "None" /\ LedByBulk /\ last.req.items[1].txt \in KnownNames
     /\ Len(last.req.items) # Arity(last.req.items[1].txt))
        => last.conv = "InvalidArgument" /\ last.cmd = NoCmd

\* hset with one element too many, every argument a BulkString
HSetWithExtraArgument ==
    /\ LedByBulk
    /\ last.req.items[1].txt = Name.hset
    /\ Len(last.req.items) = 5
    /\ \A i \in 2..5 : last.req.items[i].kind = "BulkString"
    /\ last.conv = "InvalidArgument"

\* C11: converting a frame yields InvalidCommand exactly when the frame is no
\* Array, or is an Array that is empty or whose first element is no
\* BulkString; no other frame yields InvalidCommand.
InvalidCommandExactly ==
    last.conv # "None" => (last.conv = "InvalidCommand" <=> ~LedByBulk)

\* an Array led by an Integer, with the arguments of a get, is refused
IntegerLedArrayRefused ==
    /\ last.req.kind = "Array"
    /\ Len(last.req.items) = 2
    /\ last.req.items[1] = Integer(0)
    /\ last.conv = "InvalidCommand"

\* the request has the shape of the command `name`: the name, then n elements
\* of which the first nkeys are BulkStrings of valid UTF-8
WellFormed(name, n, nkeys) ==
    /\ LedByBulk
    /\ last.req.items[1].txt = name
    /\ Len(last.req.items) = n + 1
    /\ \A i \in 2..(nkeys + 1) :
          last.req.items[i].kind = "BulkString" /\ Utf8Valid(last.req.items[i].txt)

\* C12: a well-formed request becomes the command of its name holding the
\* arguments by position: key, then field, then the value frame as it was.
ArgumentsByPosition ==
    Bind(last.req.items, LAMBDA a :
        /\ WellFormed(Name.get, 1, 1) =>
              last.conv = "Ok" /\ last.cmd = Cmd("Get", a[2].txt, <<>>, RespNull)
        /\ WellFormed(Name.set, 2, 1) =>
              last.conv = "Ok" /\ last.cmd = Cmd("Set", a[2].txt, <<>>, a[3])
        /\ WellFormed(Name.hget, 2, 2) =>
              last.conv = "Ok" /\ last.cmd = Cmd("HGet", a[2].txt, a[3].txt, RespNull)
        /\ WellFormed(Name.hset, 3, 2) =>
              last.conv = "Ok" /\ last.cmd = Cmd("HSet", a[2].txt, a[3].txt, a[4])
        /\ WellFormed(Name.hgetall, 1, 1) =>
              last.conv = "Ok" /\ last.cmd = Cmd("HGetAll", a[2].txt, <<>>, RespNull))

\* an hset whose key, field and value all differ became an HSet
HSetOfDistinctArguments ==
    /\ WellFormed(Name.hset, 3, 2)
    /\ last.req.items[2].txt = <<"k">>
    /\ last.req.items[3].txt = <<"a">>
    /\ last.req.items[4] = Integer(0)
    /\ last.cmd.kind = "HSet"

-----------------------------------------------------------------------------
(* Properties of the connections *)

\* the value the Sets executed so far leave under key k: that of the last one
\* in the order the store executed them
LastSet(k) == IF k \in DOMAIN shadow THEN shadow[k].v ELSE RespNull

\* connection c answered a Get that it took up when no Set was outstanding
QuietGet(c, i) ==
    /\ conns[c].log[i].quiet
    /\ conns[c].log[i].h.conv = "Ok"
    /\ conns[c].log[i].h.cmd.kind = "Get"

\* C13: once the Sets of every connection are executed, a Get of k from any
\* connection returns the value of the Set the store executed last, the same
\* for every connection.
SharedLastWriteWins ==
    (\A d \in DOMAIN conns : SetsLeft(conns[d]) = 0) =>
        \A c \in DOMAIN conns : \A i \in 1..Len(conns[c].log) :
            QuietGet(c, i) => conns[c].log[i].h.resp = LastSet(conns[c].log[i].h.cmd.key)

\* both connections set k, to different values, and both then read the
\* value set last
BothReadTheLastSet ==
    /\ <<"k">> \in DOMAIN shadow /\ shadow[<<"k">>].over
    /\ \A c \in DOMAIN conns :
          /\ \E i \in 1..Len(conns[c].log) : conns[c].log[i].h.cmd.kind = "Set"
          /\ \E i \in 1..Len(conns[c].log) :
                QuietGet(c, i) /\ conns[c].log[i].h.resp = shadow[<<"k">>].v
    /\ conns # <<>>

\* what executing request req on the store (fl, hs) answers
Answer(req, fl, hs) ==
    Bind(Command_try_from(req), LAMBDA c :
         IF c.st = "Ok" THEN Command_execute(c.cmd, fl, hs).resp ELSE ErrorReply)

\* C14: on every connection the i-th frame the handler takes up is the i-th
\* request the client sent, and the i-th response written is the encoded
\* result of executing that request, also when requests arrive together.
InArrivalOrder ==
    \A c \in DOMAIN conns :
        /\ \A i \in 1..Len(conns[c].log) :
              i <= Len(conns[c].reqs) /\ conns[c].log[i].h.req = conns[c].reqs[i]
        /\ \A i \in 1..Len(conns[c].out) :
              conns[c].out[i] =
                  RespFrame_encode(Answer(conns[c].reqs[i], conns[c].log[i].h.flat0,
                                          conns[c].log[i].h.hash0))

-----------------------------------------------------------------------------
(* Properties of the encoder *)

\* the encoding of the frame constructed, once it is encoded
Encoded == IF ndec = 0 THEN buf ELSE pre

\* the keys inserted, and the value last inserted under key k
KeysInserted == { ins[i][1] : i \in 1..Len(ins) }
LastInserted(k) ==
    ins[CHOOSE i \in 1..Len(ins) :
            ins[i][1] = k /\ \A j \in (i + 1)..Len(ins) : ins[j][1] # k][2]

\* the keys inserted listed once each, every one before the greater ones
Ascending ==
    CHOOSE ks \in [1..Cardinality(KeysInserted) -> KeysInserted] :
        \A i \in DOMAIN ks : \A j \in DOMAIN ks : i < j => LexLess(ks[i], ks[j])

RECURSIVE EntriesBytes(_)
EntriesBytes(ks) ==
    IF ks = <<>> THEN <<>>
    ELSE <<"+">> \o Head(ks) \o CRLF \o RespFrame_encode(LastInserted(Head(ks)))
         \o EntriesBytes(Tail(ks))

\* C15: whatever the order of the insertions, a Map encodes as '%', the
\* number of its entries, and the entries in ascending key order, each key as
\* a SimpleString followed by the encoding of its value.
MapEncodingCanonical ==
    (sent # <<>> /\ sent[1].kind = "Map" /\ Encoded # <<>>) =>
        Encoded = <<"%">> \o DecDigits(Cardinality(KeysInserted)) \o CRLF
                  \o EntriesBytes(Ascending)

\* a Map of three entries inserted greatest key first, encoded
DescendingInsertsEncoded ==
    /\ Len(ins) = 3
    /\ ins[1][1] = <<"b">> /\ ins[2][1] = <<"a", "b">> /\ ins[3][1] = <<"a">>
    /\ Encoded # <<>>

\* C16: a Set encodes as '~', the number of its elements and the elements in
\* construction order, duplicates included, and decoding the encoding returns
\* the same elements in the same order.
SetKeepsOrderAndDuplicates ==
    (sent # <<>> /\ sent[1].kind = "Set" /\ Encoded # <<>>) =>
        /\ Encoded = <<"~">> \o DecDigits(Len(sent[1].items)) \o CRLF
                     \o EncodeAll(sent[1].items)
        /\ ndec = 1 => res.st = "Ok" /\ res.frame = sent[1] /\ buf = <<>>

\* C17: an integer encodes as ':', '+' when zero or positive and '-' when
\* negative, the digits of its magnitude and CRLF, and decoding the encoding
\* returns the integer.
IntegerSignExplicit ==
    (sent # <<>> /\ sent[1].kind = "Integer" /\ Encoded # <<>>) =>
        /\ Encoded = <<":", IF sent[1].flag THEN "-" ELSE "+">> \o sent[1].txt \o CRLF
        /\ ndec = 1 => res.st = "Ok" /\ res.frame = sent[1] /\ buf = <<>>

\* the least 64-bit integer, encoded and decoded
MinIntegerDecoded ==
    /\ sent = <<I64(TRUE, I64Limit(TRUE))>>
    /\ ndec = 1 /\ res.st = "Ok"
    /\ Len(pre) = 23

\* the number of digits of |d| before the decimal point, for d # 0
IntegerDigits(f) == Len(DecDigits(f.num)) + f.ex

\* C18: a Double is encoded with an exponent exactly when it is not zero and
\* its magnitude is above 1e8 or below 1e-8; every other value is encoded in
\* fixed-point form behind an explicit '+' or '-'.
DoubleFormatRule ==
    (sent # <<>> /\ sent[1].kind = "Double" /\ Encoded # <<>>) =>
        /\ (\E i \in 1..Len(Encoded) : Encoded[i] = "e")
              <=> /\ sent[1].num # 0
                  /\ \/ IntegerDigits(sent[1]) > 9
                     \/ IntegerDigits(sent[1]) = 9 /\ sent[1].num # 1
                     \/ IntegerDigits(sent[1]) <= 0 - 8
        /\ Encoded[1] = "," /\ Encoded[2] = (IF sent[1].flag THEN "-" ELSE "+")

-----------------------------------------------------------------------------
(* Properties of the decoder's dispatch *)

\* the last call was RespFrame::decode on a buffer led by byte c that does not
\* begin with the literal lit
Generic(c, lit) ==
    /\ ndec = 1 /\ called = "RespFrame"
    /\ pre # <<>> /\ pre[1] = c /\ ~StartsWith(pre, lit)

\* the last call was RespFrame::decode on a buffer that begins with lit
Literal(lit) == ndec = 1 /\ called = "RespFrame" /\ StartsWith(pre, lit)

\* C19: on a buffer led by '$' (by '*') that does not begin with the null
\* literal, RespFrame::decode returns what BulkString::decode
\* (RespArray::decode) returns on it and leaves the buffer the same; on a
\* buffer that begins with the literal it returns the null frame and removes
\* the five bytes.
NullLiteralPrecedence ==
    /\ Generic("$", RespNullBulkString_encode) => res = BulkString_decode(pre)
    /\ Generic("*", RespNullArray_encode) => res = RespArray_decode(pre)
    /\ Literal(RespNullBulkString_encode) => res = DecOk(RespNullBulkString, Drop(pre, 5))
    /\ Literal(RespNullArray_encode) => res = DecOk(RespNullArray, Drop(pre, 5))

\* the bytes that lead a frame
LeadBytes == { "+", "-", ":", "$", "*", "%", "~", "_", "#", "," }

\* b begins with a complete header line of a kind in `kinds`
HeaderOf(b, kinds) ==
    /\ b # <<>> /\ b[1] \in kinds
    /\ extract_simple_frame_data(b, <<b[1]>>).st = "Ok"

\* what follows the header line of b, when the header announces elements
Elements(b) ==
    Bind(parse_length(b, <<b[1]>>), LAMBDA r :
         IF r.st = "Ok" /\ r.len > 0 THEN Drop(b, r.n + CRLF_LEN) ELSE <<>>)

\* b is malformed whatever bytes follow it: an unknown leading byte, at the
\* top or on the first element of an Array, Map or Set; a length header that
\* is no number and no null literal; a first Map key that is no SimpleString
Malformed(b) ==
    \/ b # <<>> /\ b[1] \notin LeadBytes
    \/ /\ HeaderOf(b, { "*", "~" })
       /\ Elements(b) # <<>> /\ Elements(b)[1] \notin LeadBytes
    \/ /\ HeaderOf(b, { "$", "*", "%", "~" })
       /\ parse_length(b, <<b[1]>>).st # "Ok"
       /\ ~StartsWith(b, RespNullBulkString_encode)
       /\ ~StartsWith(b, RespNullArray_encode)
    \/ /\ HeaderOf(b, { "%" })
       /\ Elements(b) # <<>> /\ Elements(b)[1] # "+"

\* C20: RespFrame::decode never returns NotComplete on a malformed buffer.
NotCompleteOnlyForPrefix ==
    (ndec = 1 /\ called = "RespFrame" /\ NotComplete(res)) => ~Malformed(pre)

-----------------------------------------------------------------------------
(* Properties of the two passes of a decode *)

\* the bytes the last decode call removed from the buffer
Consumed == Take(pre, Len(pre) - Len(buf))

\* what expect_length of decoder d returns on b
MeasuredBy(d, b) ==
    CASE d = "RespFrame"          -> RespFrame_expect_length(b)
      [] d = "SimpleString"       -> SimpleString_expect_length(b)
      [] d = "SimpleError"        -> SimpleError_expect_length(b)
      [] d = "i64"                -> i64_expect_length(b)
      [] d = "f64"                -> f64_expect_length(b)
      [] d = "RespNull"           -> RespNull_expect_length(b)
      [] d = "RespNullArray"      -> RespNullArray_expect_length(b)
      [] d = "RespNullBulkString" -> RespNullBulkString_expect_length(b)
      [] d = "bool"               -> bool_expect_length(b)
      [] d = "BulkString"         -> BulkString_expect_length(b)
      [] d = "RespArray"          -> RespArray_expect_length(b)
      [] d = "RespMap"            -> RespMap_expect_length(b)
      [] d = "RespSet"            -> RespSet_expect_length(b)

\* C21: whenever a decode call succeeds, the length its expect_length
\* measures on the same buffer is the number of bytes the call removed; for an
\* Array, Map or Set that length is the total of calc_total_length.
MeasurementAgrees ==
    (ndec = 1 /\ res.st = "Ok") =>
        MeasuredBy(called, pre) = LenOk(Len(Consumed))

\* the composite half alone
CompositeMeasurementAgrees ==
    (ndec = 1 /\ res.st = "Ok" /\ called \in { "RespArray", "RespMap", "RespSet" }) =>
        MeasuredBy(called, pre) = LenOk(Len(Consumed))

\* the number of elements (entries) a decoded Array, Set or Map holds
Held(f) == IF f.kind = "Map" THEN Cardinality(DOMAIN f.ents) ELSE Len(f.items)

\* the count the header line of b declares
Declared(b) == parse_length(b, <<b[1]>>).len

\* C22: every successfully decoded Array, Set or Map holds exactly the number
\* of elements (entries) its header declares.
DeclaredCountsMatch ==
    (ndec = 1 /\ res.st = "Ok" /\ res.frame.kind \in { "Array", "Set", "Map" }) =>
        Held(res.frame) = Declared(pre)

\* the Array and Set half alone
DeclaredElementsMatch ==
    (ndec = 1 /\ res.st = "Ok" /\ res.frame.kind \in { "Array", "Set" }) =>
        Held(res.frame) = Declared(pre)

\* the encoding half: the header of an encoded Array, Set, Map or BulkString
\* declares the number of elements (entries, bytes) the frame holds
EncodedCountsMatch ==
    (ndec = 0 /\ sent # <<>>) =>
        /\ sent[1].kind \in { "Array", "Set", "Map" } => Declared(buf) = Held(sent[1])
        /\ sent[1].kind = "BulkString" => Declared(buf) = Len(sent[1].txt)

-----------------------------------------------------------------------------
(* Properties of the argument conversion *)

\* the number of key and field arguments of a command, by name
KeyArgs(name) ==
    CASE name = Name.get -> 1 [] name = Name.set -> 1 [] name = Name.hget -> 2
      [] name = Name.hset -> 2 [] name = Name.hgetall -> 1

\* the key and field arguments of the last request
KeyItems == { last.req.items[i] : i \in 2..(1 + KeyArgs(last.req.items[1].txt)) }

\* C23: a request with a known command name and the right number of elements
\* converts to a Command exactly when every key and field argument is a
\* BulkString of valid UTF-8; a key or field of another kind yields
\* InvalidArgument, a BulkString key or field that is no valid UTF-8 yields
\* the UTF-8 conversion error, and the value of set and hset is accepted
\* whatever its kind.
ArgumentKindValidation ==
    (last.conv # "None" /\ LedByBulk /\ last.req.items[1].txt \in KnownNames
     /\ Len(last.req.items) = Arity(last.req.items[1].txt))
        => last.conv = (IF \E a \in KeyItems : a.kind # "BulkString"
                        THEN "InvalidArgument"
                        ELSE IF \E a \in KeyItems : ~Utf8Valid(a.txt)
                        THEN "Utf8Error"
                        ELSE "Ok")

\* a set whose value is an Integer was converted to a Command
SetOfIntegerValueAccepted ==
    /\ LedByBulk
    /\ last.req.items[1].txt = Name.set
    /\ Len(last.req.items) = 3
    /\ last.req.items[3].kind = "Integer"
    /\ last.conv = "Ok"
    /\ last.cmd.kind = "Set" /\ last.cmd.value = last.req.items[3]

-----------------------------------------------------------------------------
(* Frame properties of the commands *)

\* the maps m and m0 agree on every key other than k
SameExcept(m, m0, k) ==
    /\ DOMAIN m \ {k} = DOMAIN m0 \ {k}
    /\ \A x \in DOMAIN m \ {k} : m[x] = m0[x]

\* the field table of k in hs, empty when k has none
TableOf(hs, k) == IF k \in DOMAIN hs THEN hs[k] ELSE EmptyMap

\* C24: Set(k, v) changes nothing but the flat entry of k: the hash namespace
\* and every other flat key are as before; HSet(k, f, v) changes nothing but
\* field f of k: the flat namespace, every other key's field table and every
\* other field of k are as before, also when flat and hash use the same key.
WriteFrame ==
    /\ Executed("Set") =>
          /\ hash = last.hash0
          /\ SameExcept(flat, last.flat0, last.cmd.key)
    /\ Executed("HSet") =>
          /\ flat = last.flat0
          /\ SameExcept(hash, last.hash0, last.cmd.key)
          /\ SameExcept(TableOf(hash, last.cmd.key), TableOf(last.hash0, last.cmd.key),
                        last.cmd.field)

\* an HSet on a key that is also a flat key and has another field, beside
\* another key's field table
HSetBesideSameFlatKey ==
    /\ Executed("HSet")
    /\ last.cmd.key \in DOMAIN flat
    /\ DOMAIN TableOf(last.hash0, last.cmd.key) \ {last.cmd.field} # {}
    /\ DOMAIN last.hash0 \ {last.cmd.key} # {}
    /\ flat = last.flat0

-----------------------------------------------------------------------------
(* Properties of the decoder's totality *)

\* C25: RespFrame::decode returns on every buffer, with a frame or with an
\* error value; it never aborts on an access out of the buffer's range.
DecodeNeverAborts ==
    (ndec = 1 /\ called = "RespFrame") => res.st # "Panic"

-----------------------------------------------------------------------------
(* Properties of concurrent connections *)

\* the keys the requests of connection c name
KeysOf(c) == { conns[c].reqs[i].items[2].txt : i \in 1..Len(conns[c].reqs) }

\* the requests connection c has had executed, first to last
Handled(c) == [i \in 1..Len(conns[c].log) |-> conns[c].log[i].h.req]

ReadsAreReadOnly ==
    /\ (Executed("Get") \/ Executed("HGet") \/ Executed("HGetAll")) =>
          flat = last.flat0 /\ hash = last.hash0
    /\ (Executed("HGet") \/ Executed("HGetAll")) =>
          (last.cmd.key \notin DOMAIN last.hash0 => last.cmd.key \notin DOMAIN hash)
    /\ (Executed("HGetAll") /\ FieldsSet(last.cmd.key) = {}) =>
          last.resp = RespArray(<<>>)

\* an HGet of a key without field table, on a store holding data in both
\* namespaces, left the key without field table
HGetOfMissingKeyCreatesNothing ==
    /\ Executed("HGet")
    /\ last.resp = RespNull
    /\ flat # EmptyMap /\ hash # EmptyMap
    /\ last.cmd.key \notin DOMAIN hash

-----------------------------------------------------------------------------
(* Properties of the frame terminator *)

\* C29: whenever a decode call succeeds, the bytes it removed from the buffer
\* end with CR LF.
DecodedEndsWithCrlf ==
    (ndec = 1 /\ res.st = "Ok") =>
        /\ Len(Consumed) >= CRLF_LEN
        /\ Drop(Consumed, Len(Consumed) - CRLF_LEN) = CRLF

====
